---- MODULE Spec2Model ----
(***************************************************************************)
(* A state-machine model of lib/auth/auth.js (class Auth): the session     *)
(* controller, the token facade, the request facade, the redirect policy   *)
(* and the error listeners.  The Storage collaborator (./storage) and the  *)
(* helpers of ./utilities are not part of the modelled file; they are      *)
(* modelled from their documented interface.                               *)
(*                                                                         *)
(* JavaScript runs each synchronous segment to completion, so one action   *)
(* is one synchronous segment: a public call up to the point where it      *)
(* returns, or one promise reaction (a then/catch handler).  A call that   *)
(* waits for a strategy's or the transport's future is a record in tasks.  *)
(***************************************************************************)
EXTENDS Integers, Sequences, FiniteSets, TLC

VARIABLES
  opts,           \* this.options (read-only after construction)
  browser,        \* process.browser
  phase,          \* "setup" until init() has run, then "ready"
  watching,       \* the loggedIn watcher of init() is registered
  strategies,     \* this.strategies: name -> set of capabilities implemented
  state,          \* this.$state: user, loggedIn, busy, strategy
  universal,      \* the persisted key space of $storage: key -> value
  errorListeners, \* this._errorListeners
  error,          \* this.error
  route,          \* this.ctx.route: fullPath and the auth:false option
  tasks,          \* the calls waiting for a future, oldest first
  transport,      \* the requests outstanding at ctx.app.$axios, oldest first:
                  \* the Authorization header each was sent with
  journey,        \* history: the redirect calls since the last redirect('login')
  last            \* what the most recent synchronous segment did (history)

vars == <<opts, browser, phase, watching, strategies, state, universal,
          errorListeners, error, route, tasks, transport, journey, last>>

----------------------------------------------------------------------------
\* Bounds of the model.

\* Calls waiting for a future at the same time.
MaxTasks == 2
\* Registered error listeners.
MaxListeners == 2
\* redirect('home') calls remembered after a redirect('login').
MaxHomes == 2

----------------------------------------------------------------------------
\* Values.

\* JavaScript null / undefined.
Null == "<unset>"

Names == {"local", "social"}
Capabilities == {"mounted", "login", "fetchUser", "logout", "reset"}
\* The capability sets a registered strategy may have: all five, none, and
\* login, fetchUser and reset only.
CapabilitySets == {Capabilities, {}, {"login", "fetchUser", "reset"}}

Users == {"alice", "bob"}

\* Token values: absent, empty, a token.
TokenValues == {Null, "", "Bearer t1"}

\* Listeners: "log" returns, "rethrow" throws ListenerError.
Listeners == {"log", "rethrow"}
ListenerThrows(fn) == fn = "rethrow"

StrategyError == "StrategyError"
ListenerError == "ListenerError"
TypeError == "TypeError"
NoToken == "No Token"
TransportError == "TransportError"

\* URLs.  Routes are relative; a persisted return-to value may be anything.
RouteURLs == {"/home", "/login", "/secret", "/secret?tab=1"}
URLs == RouteURLs \cup {"https://idp.example/cb"}
EventNames == {"login", "logout", "home", "callback"}

\* options.redirect when it is an object; callback has no destination.
RedirectMap ==
  [e \in EventNames |->
     CASE e = "login" -> "/login"
       [] e = "logout" -> "/login"
       [] e = "home" -> "/home"
       [] OTHER -> Null]

\* options.redirect with no home destination.
RedirectMapNoHome == [RedirectMap EXCEPT !["home"] = Null]

----------------------------------------------------------------------------
\* ./utilities

\* u.split('?')[0]
StripQuery(u) == IF u = "/secret?tab=1" THEN "/secret" ELSE u

isSameURL(a, b) == StripQuery(a) = StripQuery(b)

isRelativeURL(u) == u \in RouteURLs

\* unset or empty
isUnset(o) == o \in {Null, ""}

\* routeOption(route, 'auth', false): the route opts out of auth
routeOption(r) == r.authOff

----------------------------------------------------------------------------
\* The memory one synchronous segment works on: the session state, the
\* persisted key space, this.error, and what the segment did so far (watch
\* callbacks run, redirect calls made, strategy capabilities called and the
\* busy flag and last error each found when it was called).

Mem ==
  [state |-> state, universal |-> universal, error |-> error,
   journey |-> journey, fired |-> <<>>, redirs |-> <<>>, started |-> <<>>]

from == IF opts.fullPathRedirect THEN StripQuery(route.fullPath) ELSE route.fullPath

StrategyKey == "strategy"
RedirectKey == "redirect"
TokenKey(strategy) == opts.token_prefix \o strategy
Keys == {StrategyKey, RedirectKey} \cup {TokenKey(s) : s \in Names}

\* Storage.getUniversal / setUniversal: the persisted key space; the
\* strategy name is also a field of the session state.
getUniversal(m, key) == m.universal[key]

setUniversal(m, key, value) ==
  [m EXCEPT !.universal[key] = value,
            !.state.strategy = IF key = StrategyKey THEN value ELSE @]

\* Storage.syncUniversal(key, fallback): the persisted value, or the
\* fallback when none is persisted, restored into the session.
syncUniversal(m, key, fallback) ==
  setUniversal(m, key, IF isUnset(m.universal[key]) THEN fallback ELSE m.universal[key])

\* One redirect call's record: the route it was issued from, the return-to
\* value persisted when it was issued (m: the memory at the call), the
\* destination it resolved and whether and how it navigated.
RedirectRecord(m, name, to, navigated, how) ==
  [name |-> name, from |-> from, stored |-> m.universal[RedirectKey],
   to |-> to, navigated |-> navigated, how |-> how]

\* The segment's redirect calls, and the history of redirect('login')
\* followed by redirect('home') calls.
Record(m, rr) ==
  [m EXCEPT !.redirs = Append(@, rr),
            !.journey = CASE rr.name = "login" -> <<rr>>
                          [] rr.name = "home" /\ Len(@) \in 1..MaxHomes -> Append(@, rr)
                          [] OTHER -> @]

\* Variant: the loop check made on the configured destination, before the rewrite.
redirect_checkBeforeRewrite(m, name, noRouter) ==
  IF ~opts.redirectOn THEN
    Record(m, RedirectRecord(m, name, Null, FALSE, "none"))
  ELSE IF opts.redirect[name] = Null THEN
    Record(m, RedirectRecord(m, name, Null, FALSE, "none"))
  ELSE
    LET to0 == opts.redirect[name]
        m1 == IF opts.rewriteRedirects /\ name = "login"
                 /\ isRelativeURL(from) /\ ~isSameURL(to0, from)
              THEN setUniversal(m, RedirectKey, from) ELSE m
        stored == getUniversal(m1, RedirectKey)
        m2 == IF opts.rewriteRedirects /\ name = "home"
              THEN setUniversal(m1, RedirectKey, Null) ELSE m1
        to == IF opts.rewriteRedirects /\ name = "home" /\ isRelativeURL(stored)
              THEN stored ELSE to0
    IN IF isSameURL(to0, from)
       THEN Record(m2, RedirectRecord(m, name, to, FALSE, "none"))
       ELSE Record(m2, RedirectRecord(m, name, to, TRUE,
                          IF browser /\ noRouter THEN "replace" ELSE "router"))

\* Variant: redirect('home') reads the return-to value and does not clear it.
redirect_keepReturnTo(m, name, noRouter) ==
  IF ~opts.redirectOn THEN
    Record(m, RedirectRecord(m, name, Null, FALSE, "none"))
  ELSE IF opts.redirect[name] = Null THEN
    Record(m, RedirectRecord(m, name, Null, FALSE, "none"))
  ELSE
    LET to0 == opts.redirect[name]
        m1 == IF opts.rewriteRedirects /\ name = "login"
                 /\ isRelativeURL(from) /\ ~isSameURL(to0, from)
              THEN setUniversal(m, RedirectKey, from) ELSE m
        stored == getUniversal(m1, RedirectKey)
        to == IF opts.rewriteRedirects /\ name = "home" /\ isRelativeURL(stored)
              THEN stored ELSE to0
    IN IF isSameURL(to, from)
       THEN Record(m1, RedirectRecord(m, name, to, FALSE, "none"))
       ELSE Record(m1, RedirectRecord(m, name, to, TRUE,
                          IF browser /\ noRouter THEN "replace" ELSE "router"))

\* Variant: the stored return-to value is used whatever it is.
redirect_trustReturnTo(m, name, noRouter) ==
  IF ~opts.redirectOn THEN
    Record(m, RedirectRecord(m, name, Null, FALSE, "none"))
  ELSE IF opts.redirect[name] = Null THEN
    Record(m, RedirectRecord(m, name, Null, FALSE, "none"))
  ELSE
    LET to0 == opts.redirect[name]
        m1 == IF opts.rewriteRedirects /\ name = "login"
                 /\ isRelativeURL(from) /\ ~isSameURL(to0, from)
              THEN setUniversal(m, RedirectKey, from) ELSE m
        stored == getUniversal(m1, RedirectKey)
        m2 == IF opts.rewriteRedirects /\ name = "home"
              THEN setUniversal(m1, RedirectKey, Null) ELSE m1
        to == IF opts.rewriteRedirects /\ name = "home" /\ stored # Null
              THEN stored ELSE to0
    IN IF isSameURL(to, from)
       THEN Record(m2, RedirectRecord(m, name, to, FALSE, "none"))
       ELSE Record(m2, RedirectRecord(m, name, to, TRUE,
                          IF browser /\ noRouter THEN "replace" ELSE "router"))

\* Auth.redirect(name, noRouter)
redirect(m, name, noRouter) ==
  IF ~opts.redirectOn THEN
    Record(m, RedirectRecord(m, name, Null, FALSE, "none"))
  ELSE IF opts.redirect[name] = Null THEN
    Record(m, RedirectRecord(m, name, Null, FALSE, "none"))
  ELSE
    LET to0 == opts.redirect[name]
        \* name === 'login': remember where the visitor came from
        m1 == IF opts.rewriteRedirects /\ name = "login"
                 /\ isRelativeURL(from) /\ ~isSameURL(to0, from)
              THEN setUniversal(m, RedirectKey, from) ELSE m
        \* name === 'home': read and clear the return-to value
        stored == getUniversal(m1, RedirectKey)
        m2 == IF opts.rewriteRedirects /\ name = "home"
              THEN setUniversal(m1, RedirectKey, Null) ELSE m1
        to == IF opts.rewriteRedirects /\ name = "home" /\ isRelativeURL(stored)
              THEN stored ELSE to0
    IN \* prevent infinity redirects
       IF isSameURL(to, from)
       THEN Record(m2, RedirectRecord(m, name, to, FALSE, "none"))
       ELSE Record(m2, RedirectRecord(m, name, to, TRUE,
                          IF browser /\ noRouter THEN "replace" ELSE "router"))

\* Variant: the route's auth option is not consulted.
watchCallback_ignoreRouteOption(m, loggedIn) ==
  LET seen == [loggedIn |-> m.state.loggedIn, user |-> m.state.user]
      m1 == [m EXCEPT !.fired = Append(@, seen)]
  IN redirect(m1, IF loggedIn THEN "home" ELSE "logout", FALSE)

\* The callback init() hands to watchState('loggedIn', ...); it records the
\* session it observes.
watchCallback(m, loggedIn) ==
  LET seen == [loggedIn |-> m.state.loggedIn, user |-> m.state.user]
      m1 == [m EXCEPT !.fired = Append(@, seen)]
  IN IF ~routeOption(route)
     THEN redirect(m1, IF loggedIn THEN "home" ELSE "logout", FALSE)
     ELSE m1

\* Storage.setState(key, value); a registered watcher of the key runs
\* synchronously when the value changes.
setState(m, key, value) ==
  LET m1 == [m EXCEPT !.state[key] = value]
  IN IF watching /\ key = "loggedIn" /\ m.state[key] # value
     THEN watchCallback(m1, value)
     ELSE m1

\* Variant: loggedIn written as true whatever the user.
setUser_alwaysLoggedIn(m, user) ==
  setState(setState(m, "loggedIn", TRUE), "user", user)

\* Auth.setUser(user)
setUser(m, user) ==
  setState(setState(m, "loggedIn", user # Null), "user", user)

\* Auth.getToken / Auth.setToken
getToken(m, strategy) == getUniversal(m, TokenKey(strategy))

setToken(m, strategy, token) == setUniversal(m, TokenKey(strategy), token)

----------------------------------------------------------------------------
\* Error listeners.

Min(S) == CHOOSE x \in S : \A y \in S : x <= y

\* The listeners the for-of loop of callOnError reaches: all of them, or
\* those up to and including the first that throws.
Reached(listeners) ==
  LET T == {i \in 1..Len(listeners) : ListenerThrows(listeners[i])}
  IN IF T = {} THEN listeners ELSE SubSeq(listeners, 1, Min(T))

\* Auth.callOnError(error, payload): the calls made, and whether a listener
\* threw (the exception leaves callOnError).
callOnError(m, err, payload) ==
  [mem |-> [m EXCEPT !.error = err],
   calls |-> [i \in 1..Len(Reached(errorListeners)) |->
               [fn |-> Reached(errorListeners)[i], error |-> err, method |-> payload]],
   threw |-> \E i \in 1..Len(errorListeners) : ListenerThrows(errorListeners[i])]

----------------------------------------------------------------------------
\* The synchronous part of the controller's calls.  sync says what the
\* strategy's capability does when called: "returns" a future, or "throws".
\* The result: the memory, how the call returned ("resolved": an already
\* resolved future; "pending": a future that waits for the strategy's;
\* "threw": an exception left the call), the controller method whose
\* reaction waits, the capabilities invoked, and a reset left running
\* without being awaited.

Result(m, kind, op, err, invoked, detached) ==
  [mem |-> m, kind |-> kind, op |-> op, strat |-> m.state.strategy,
   err |-> err, invoked |-> invoked, detached |-> detached]

\* get strategy () is undefined when the name is not registered
hasStrategy(m) == m.state.strategy \in DOMAIN strategies

has(m, capability) == capability \in strategies[m.state.strategy]

\* Calling capability c of the active strategy: the call sees the session
\* as it is at that point.
Invoke(m, c, sync, detached) ==
  LET m1 == [m EXCEPT !.started =
               Append(@, [capability |-> c, busy |-> m.state.busy, error |-> m.error])]
  IN IF sync = "throws"
     THEN Result(m1, "threw", c, StrategyError, <<<<m.state.strategy, c>>>>, detached)
     ELSE Result(m1, "pending", c, Null, <<<<m.state.strategy, c>>>>, detached)

\* Auth.fetchUser()
fetchUser(m, sync) ==
  IF ~hasStrategy(m) THEN Result(m, "threw", "fetchUser", TypeError, <<>>, FALSE)
  ELSE IF ~has(m, "fetchUser") THEN Result(m, "resolved", "fetchUser", Null, <<>>, FALSE)
  ELSE Invoke(m, "fetchUser", sync, FALSE)

\* Auth.fetchUserOnce()
fetchUserOnce(m, sync) ==
  IF m.state.user = Null THEN fetchUser(m, sync)
  ELSE Result(m, "resolved", "fetchUserOnce", Null, <<>>, FALSE)

\* Auth.mounted()
mounted(m, sync) ==
  IF ~hasStrategy(m) THEN Result(m, "threw", "mounted", TypeError, <<>>, FALSE)
  ELSE IF ~has(m, "mounted") THEN fetchUserOnce(m, sync)
  ELSE Invoke(m, "mounted", sync, FALSE)

\* Variant: no test for the strategy already in use.
setStrategy_noShortCircuit(m, name, sync) ==
  mounted(setUniversal(m, StrategyKey, name), sync)

\* Variant: mounted() run before the new name is persisted.
setStrategy_mountBeforePersist(m, name, sync) ==
  IF name = getUniversal(m, StrategyKey)
  THEN Result(m, "resolved", "setStrategy", Null, <<>>, FALSE)
  ELSE LET r == mounted(m, sync)
       IN [r EXCEPT !.mem = setUniversal(r.mem, StrategyKey, name)]

\* Auth.setStrategy(name)
setStrategy(m, name, sync) ==
  IF name = getUniversal(m, StrategyKey)
  THEN Result(m, "resolved", "setStrategy", Null, <<>>, FALSE)
  ELSE mounted(setUniversal(m, StrategyKey, name), sync)

\* Auth.init(): restore the strategy, then mounted().  (The watcher is
\* registered by the action, before anything else runs.)
init(m, sync) ==
  mounted(syncUniversal(m, StrategyKey, opts.defaultStrategy), sync)

\* Auth.wrapLogin(promise), its synchronous part
wrapLogin(m) == [setState(m, "busy", TRUE) EXCEPT !.error = Null]

\* Auth.login(): the strategy's login is called first, its result is handed
\* to wrapLogin.
login(m, sync) ==
  IF ~hasStrategy(m) THEN Result(m, "threw", "login", TypeError, <<>>, FALSE)
  ELSE IF ~has(m, "login") THEN Result(m, "resolved", "login", Null, <<>>, FALSE)
  ELSE LET r == Invoke(m, "login", sync, FALSE)
       IN IF r.kind = "threw" THEN r ELSE [r EXCEPT !.mem = wrapLogin(r.mem)]

\* Variant: the fallback clears the user and leaves the token.
reset_keepToken(m, sync) ==
  IF ~hasStrategy(m) THEN Result(m, "threw", "reset", TypeError, <<>>, FALSE)
  ELSE IF ~has(m, "reset")
  THEN Result(setUser(m, Null), "resolved", "reset", Null, <<>>, FALSE)
  ELSE Invoke(m, "reset", sync, FALSE)

\* Auth.reset()
reset(m, sync) ==
  IF ~hasStrategy(m) THEN Result(m, "threw", "reset", TypeError, <<>>, FALSE)
  ELSE IF ~has(m, "reset")
  THEN LET m1 == setUser(m, Null)
       IN Result(setToken(m1, m1.state.strategy, Null), "resolved", "reset", Null, <<>>, FALSE)
  ELSE Invoke(m, "reset", sync, FALSE)

\* Auth.logout(): without a logout capability, reset() is called and its
\* future dropped.
logout(m, sync) ==
  IF ~hasStrategy(m) THEN Result(m, "threw", "logout", TypeError, <<>>, FALSE)
  ELSE IF ~has(m, "logout")
  THEN LET r == reset(m, sync)
       IN IF r.kind = "threw" THEN r
          ELSE Result(r.mem, "resolved", "logout", Null, r.invoked, r.kind = "pending")
  ELSE Invoke(m, "logout", sync, FALSE)

----------------------------------------------------------------------------
\* Tasks and the record of the last synchronous segment.

\* A call whose future is outstanding.  entry: the public method called;
\* op: the controller method whose reaction waits for the strategy's (or
\* the transport's) future; next: "login" while the then-callback of
\* loginWith has not run; failed: the strategy's call failed; invoked: the
\* capabilities invoked for the call; want: the response field requested.
Task(entry, arg, r, next) ==
  [entry |-> entry, arg |-> arg, op |-> r.op, strat |-> r.strat,
   pc |-> IF r.kind = "pending" THEN "pending" ELSE "then",
   next |-> next, failed |-> FALSE, invoked |-> r.invoked, want |-> Null]

\* The reset that logout() started and did not wait for.
DetachedReset(r) ==
  [entry |-> "logout/reset", arg |-> Null, op |-> "reset", strat |-> r.strat,
   pc |-> "pending", next |-> "none", failed |-> FALSE, invoked |-> r.invoked,
   want |-> Null]

\* How a call's future settled.
Outcome(t, outcome, err, value) ==
  [entry |-> t.entry, arg |-> t.arg, op |-> t.op, strat |-> t.strat,
   failed |-> t.failed, invoked |-> t.invoked,
   outcome |-> outcome, err |-> err, value |-> value]

\* What the last segment did: the call (op, arg), how it returned (kind,
\* err), the capabilities it invoked, the listener calls it made, the watch
\* callbacks and redirect calls that ran in it, what each capability called
\* in it found (started), the strategy active before
\* it, the future it settled (none, or one Outcome), and for requestWith
\* the endpoint and defaults it was given.
Last(op, arg, kind, err, invoked, calls, m, settled) ==
  [op |-> op, arg |-> arg, kind |-> kind, err |-> err, invoked |-> invoked,
   calls |-> calls, fired |-> m.fired, redirs |-> m.redirs,
   started |-> m.started,
   prev |-> state.strategy, settled |-> settled, input |-> <<>>]

NoLast ==
  [op |-> "none", arg |-> Null, kind |-> "none", err |-> Null, invoked |-> <<>>,
   calls |-> <<>>, fired |-> <<>>, redirs |-> <<>>, started |-> <<>>,
   prev |-> Null, settled |-> <<>>, input |-> <<>>]

Commit(m) ==
  /\ state' = m.state
  /\ universal' = m.universal
  /\ error' = m.error
  /\ journey' = m.journey

\* A public controller call returns: r is its synchronous part, next is
\* "login" for loginWith (a then-callback waits for r's future).
Start(entry, arg, r, next) ==
  /\ Len(tasks) < MaxTasks
  /\ Commit(r.mem)
  /\ tasks' = tasks
       \o (IF r.kind = "pending" \/ (r.kind = "resolved" /\ next # "none")
           THEN <<Task(entry, arg, r, next)>> ELSE <<>>)
       \o (IF r.kind # "threw" /\ r.detached THEN <<DetachedReset(r)>> ELSE <<>>)
  /\ last' = Last(entry, arg,
                  IF r.kind = "resolved" /\ next # "none" THEN "pending" ELSE r.kind,
                  r.err, r.invoked, <<>>, r.mem, <<>>)

----------------------------------------------------------------------------
\* Construction and startup.

Options ==
  [redirectOn : BOOLEAN, redirect : {RedirectMap, RedirectMapNoHome},
   rewriteRedirects : BOOLEAN, fullPathRedirect : BOOLEAN,
   defaultStrategy : {"local"}, token_prefix : {"_token."}]

Routes == [fullPath : RouteURLs, authOff : BOOLEAN]

\* new Auth(ctx, options): no strategies, no listeners,
\* initialState { user: null, loggedIn: false }.
Constructed ==
  /\ phase = "setup"
  /\ watching = FALSE
  /\ strategies = << >>
  /\ state = [user |-> Null, loggedIn |-> FALSE, busy |-> FALSE, strategy |-> Null]
  /\ errorListeners = <<>>
  /\ error = Null
  /\ tasks = <<>>
  /\ transport = <<>>
  /\ journey = <<>>
  /\ last = NoLast

\* Auth.registerStrategy(name, strategy), at startup
RegisterStrategy(name, capabilities) ==
  /\ phase = "setup"
  /\ strategies' = [n \in DOMAIN strategies \cup {name} |->
                      IF n = name THEN capabilities ELSE strategies[n]]
  /\ last' = Last("registerStrategy", Null, "returned", Null, <<>>, <<>>, Mem, <<>>)
  /\ UNCHANGED <<opts, browser, phase, watching, state, universal,
                 errorListeners, error, route, tasks, transport, journey>>

\* Auth.init()
InitCall(sync) ==
  /\ phase = "setup"
  /\ phase' = "ready"
  /\ watching' = browser
  /\ Start("init", Null, init(Mem, sync), "none")
  /\ UNCHANGED <<opts, browser, strategies, errorListeners, route, transport>>

----------------------------------------------------------------------------
\* The session controller's public calls.

Ready == phase = "ready"

Frame == UNCHANGED <<opts, browser, phase, watching, strategies,
                     errorListeners, route, transport>>

SetStrategy(name, sync) ==
  /\ Ready
  /\ Start("setStrategy", name, setStrategy(Mem, name, sync), "none")
  /\ Frame

MountedCall(sync) ==
  /\ Ready
  /\ Start("mounted", Null, mounted(Mem, sync), "none")
  /\ Frame

\* Auth.loginWith(name): setStrategy(name).then(() => login())
LoginWith(name, sync) ==
  /\ Ready
  /\ Start("loginWith", name, setStrategy(Mem, name, sync), "login")
  /\ Frame

LoginCall(sync) ==
  /\ Ready
  /\ Start("login", Null, login(Mem, sync), "none")
  /\ Frame

FetchUserCall(sync) ==
  /\ Ready
  /\ Start("fetchUser", Null, fetchUser(Mem, sync), "none")
  /\ Frame

LogoutCall(sync) ==
  /\ Ready
  /\ Start("logout", Null, logout(Mem, sync), "none")
  /\ Frame

ResetCall(sync) ==
  /\ Ready
  /\ Start("reset", Null, reset(Mem, sync), "none")
  /\ Frame

\* Auth.setUser(user), called by a strategy or by the application
SetUserCall(user) ==
  /\ Ready
  /\ LET m == setUser(Mem, user)
     IN /\ Commit(m)
        /\ last' = Last("setUser", user, "returned", Null, <<>>, <<>>, m, <<>>)
  /\ UNCHANGED tasks
  /\ Frame

\* Auth.setToken(strategy, token)
SetTokenCall(strategy, token) ==
  /\ Ready
  /\ LET m == setToken(Mem, strategy, token)
     IN /\ Commit(m)
        /\ last' = Last("setToken", Null, "returned", Null, <<>>, <<>>, m, <<>>)
  /\ UNCHANGED tasks
  /\ Frame

\* Auth.onError(listener)
OnError(listener) ==
  /\ Len(errorListeners) < MaxListeners
  /\ errorListeners' = Append(errorListeners, listener)
  /\ last' = Last("onError", Null, "returned", Null, <<>>, <<>>, Mem, <<>>)
  /\ UNCHANGED <<opts, browser, phase, watching, strategies, state, universal,
                 error, route, tasks, transport, journey>>

\* Auth.redirect(name, noRouter)
RedirectCall(name, noRouter) ==
  /\ Ready
  /\ LET m == redirect(Mem, name, noRouter)
     IN /\ Commit(m)
        /\ last' = Last("redirect", name, "returned", Null, <<>>, <<>>, m, <<>>)
  /\ UNCHANGED tasks
  /\ Frame

\* The router moves to another route.
RouteChange(r) ==
  /\ Ready
  /\ r # route
  /\ route' = r
  /\ last' = Last("route", Null, "returned", Null, <<>>, <<>>, Mem, <<>>)
  /\ UNCHANGED <<opts, browser, phase, watching, strategies, state, universal,
                 errorListeners, error, tasks, transport, journey>>

----------------------------------------------------------------------------
\* Promise reactions.  A reaction leaves the task waiting (stay) or settles
\* the call's future (settled).

Lifecycle == {"mounted", "fetchUser", "logout", "reset"}

Isolated(t) == [stay |-> <<t>>, settled |-> <<>>]

\* The future of the call settles; when it resolves and a then-callback
\* waits for it, the callback is queued instead.
Settled(t, outcome, err, value) ==
  IF outcome = "resolved" /\ t.next # "none"
  THEN Isolated([t EXCEPT !.pc = "then"])
  ELSE [stay |-> <<>>, settled |-> <<Outcome(t, outcome, err, value)>>]

\* tasks with task i replaced by what its reaction left
Reacted(i, res) ==
  SubSeq(tasks, 1, i - 1) \o res.stay \o SubSeq(tasks, i + 1, Len(tasks))

\* .catch(error => this.callOnError(error, { method })) of mounted,
\* fetchUser, logout and reset: the handler returns what callOnError
\* returns, or throws what a listener threw.
lifecycleCatch(t, c) ==
  Settled([t EXCEPT !.failed = TRUE],
          IF c.threw THEN "rejected" ELSE "resolved",
          IF c.threw THEN ListenerError ELSE Null, Null)

\* The strategy's future of a lifecycle call settles.
SettleLifecycle(i, ok) ==
  /\ i \in 1..Len(tasks)
  /\ tasks[i].pc = "pending"
  /\ tasks[i].op \in Lifecycle
  /\ IF ok
     THEN LET res == Settled(tasks[i], "resolved", Null, Null)
          IN /\ tasks' = Reacted(i, res)
             /\ last' = Last("settle", tasks[i].op, "resolved", Null, <<>>, <<>>,
                             Mem, res.settled)
             /\ UNCHANGED <<state, universal, error, journey>>
     ELSE LET c == callOnError(Mem, StrategyError, tasks[i].op)
              res == lifecycleCatch(tasks[i], c)
          IN /\ Commit(c.mem)
             /\ tasks' = Reacted(i, res)
             /\ last' = Last("settle", tasks[i].op, "failed", StrategyError, <<>>,
                             c.calls, c.mem, res.settled)
  /\ Frame

\* wrapLogin's then and catch handlers: busy is reset
wrapLoginSettled(m) == setState(m, "busy", FALSE)

\* The strategy's login future settles: wrapLogin's handlers run; on
\* failure they reject again and login()'s catch handler is queued.
SettleLogin(i, ok) ==
  /\ i \in 1..Len(tasks)
  /\ tasks[i].pc = "pending"
  /\ tasks[i].op = "login"
  /\ LET m == wrapLoginSettled(Mem)
         res == IF ok THEN Settled(tasks[i], "resolved", Null, Null)
                ELSE Isolated([tasks[i] EXCEPT !.pc = "wrapRejected", !.failed = TRUE])
     IN /\ Commit(m)
        /\ tasks' = Reacted(i, res)
        /\ last' = Last("settle", "login", IF ok THEN "resolved" ELSE "failed",
                        IF ok THEN Null ELSE StrategyError, <<>>, <<>>, m, res.settled)
  /\ Frame

\* login()'s .catch(error => this.callOnError(error, { method: 'login' }))
loginCatch(t, c) ==
  Settled(t, IF c.threw THEN "rejected" ELSE "resolved",
          IF c.threw THEN ListenerError ELSE Null, Null)

LoginCatch(i) ==
  /\ i \in 1..Len(tasks)
  /\ tasks[i].pc = "wrapRejected"
  /\ LET c == callOnError(Mem, StrategyError, "login")
         res == loginCatch(tasks[i], c)
     IN /\ Commit(c.mem)
        /\ tasks' = Reacted(i, res)
        /\ last' = Last("catch", "login", "returned", StrategyError, <<>>,
                        c.calls, c.mem, res.settled)
  /\ Frame

\* The then-callback of loginWith runs: login() on the strategy active now.
\* An exception thrown by login() rejects loginWith's future.
LoginWithThen(i, sync) ==
  /\ i \in 1..Len(tasks)
  /\ tasks[i].pc = "then"
  /\ LET r == login(Mem, sync)
         t == [tasks[i] EXCEPT !.next = "none", !.op = "login", !.strat = r.strat,
                               !.invoked = @ \o r.invoked,
                               !.failed = (r.kind = "threw" /\ r.err = StrategyError)]
         res == CASE r.kind = "pending" -> Isolated([t EXCEPT !.pc = "pending"])
                  [] r.kind = "resolved" -> Settled(t, "resolved", Null, Null)
                  [] OTHER -> Settled(t, "rejected", r.err, Null)
     IN /\ Commit(r.mem)
        /\ tasks' = Reacted(i, res)
        /\ last' = Last("then", "login", r.kind, r.err, r.invoked, <<>>, r.mem,
                        res.settled)
  /\ Frame

----------------------------------------------------------------------------
\* The request facade.

\* An endpoint description: auth is the headers' Authorization entry
\* (NoHeaders: no headers object; Null: headers without the entry),
\* propertyName the response field to extract (Null: none).
NoHeaders == "<no headers>"
CallerAuth == "Basic caller"
Endpoints == [auth : {NoHeaders, Null, "", CallerAuth}, propertyName : {Null, "user"}]
\* The defaults argument: given is FALSE when it is omitted.
NoDefaults == [given |-> FALSE, auth |-> NoHeaders, propertyName |-> Null]
DefaultsArgs ==
  {NoDefaults, [given |-> TRUE, auth |-> NoHeaders, propertyName |-> Null],
   [given |-> TRUE, auth |-> CallerAuth, propertyName |-> "user"]}

\* Object.assign({}, defaults, endpoint): the endpoint's own fields win
Assign(defaults, endpoint) ==
  [auth |-> IF endpoint.auth # NoHeaders \/ ~defaults.given
            THEN endpoint.auth ELSE defaults.auth,
   propertyName |-> IF endpoint.propertyName # Null \/ ~defaults.given
                    THEN endpoint.propertyName ELSE defaults.propertyName]

\* response.data, and getProp(response.data, propertyName)
ResponseData == "data"
getProp(data, propertyName) == data \o "." \o propertyName

RequestTask(entry, arg, endpoint) ==
  [entry |-> entry, arg |-> arg, op |-> "request", strat |-> state.strategy,
   pc |-> "pending", next |-> "none", failed |-> FALSE, invoked |-> <<>>,
   want |-> endpoint.propertyName]

\* Auth.request(endpoint, defaults): the description handed to the transport
request(endpoint, defaults) ==
  IF defaults.given THEN Assign(defaults, endpoint) ELSE endpoint

\* Auth.request(endpoint, defaults)
Request(endpoint, defaults) ==
  /\ Ready
  /\ Len(tasks) < MaxTasks
  /\ LET e == request(endpoint, defaults)
     IN /\ transport' = Append(transport, e.auth)
        /\ tasks' = Append(tasks, RequestTask("request", Null, e))
        /\ last' = Last("request", Null, "pending", Null, <<>>, <<>>, Mem, <<>>)
  /\ UNCHANGED <<opts, browser, phase, watching, strategies, state, universal,
                 errorListeners, error, route, journey>>

\* requestWith: the headers object is created when missing, and the token
\* is put under Authorization unless the entry there is truthy
withToken(e, token) ==
  [e EXCEPT !.auth = IF @ \in {NoHeaders, Null, ""} THEN token ELSE @]

\* Variant: no test for a missing token.
hasNoToken_never(m, strategy) == FALSE

\* requestWith's precondition: isUnset(this.getToken(strategy))
hasNoToken(m, strategy) == isUnset(getToken(m, strategy))

\* Auth.requestWith(strategy, endpoint, defaults)
RequestWith(strategy, endpoint, defaults) ==
  /\ Ready
  /\ Len(tasks) < MaxTasks
  /\ IF hasNoToken(Mem, strategy)
     THEN /\ last' = [Last("requestWith", strategy, "rejected", NoToken, <<>>, <<>>,
                           Mem, <<>>) EXCEPT !.input = <<endpoint, defaults>>]
          /\ UNCHANGED <<tasks, transport>>
     ELSE LET e == request(withToken(Assign(defaults, endpoint), getToken(Mem, strategy)),
                           NoDefaults)
          IN /\ transport' = Append(transport, e.auth)
             /\ tasks' = Append(tasks, RequestTask("requestWith", strategy, e))
             /\ last' = [Last("requestWith", strategy, "pending", Null, <<>>, <<>>,
                              Mem, <<>>) EXCEPT !.input = <<endpoint, defaults>>]
  /\ UNCHANGED <<opts, browser, phase, watching, strategies, state, universal,
                 errorListeners, error, route, journey>>

\* request()'s catch handler: callOnError, then Promise.reject(error)
requestCatch(t, c) ==
  Settled([t EXCEPT !.failed = TRUE], "rejected",
          IF c.threw THEN ListenerError ELSE TransportError, Null)

\* request()'s then handler: the response field asked for, or the payload
requestThen(t) ==
  Settled(t, "resolved", Null,
          IF t.want # Null THEN getProp(ResponseData, t.want) ELSE ResponseData)

\* The transport's future settles: request()'s then or catch handler runs.
SettleRequest(i, ok) ==
  /\ i \in 1..Len(tasks)
  /\ tasks[i].pc = "pending"
  /\ tasks[i].op = "request"
  /\ IF ok
     THEN LET res == requestThen(tasks[i])
          IN /\ tasks' = Reacted(i, res)
             /\ last' = Last("settle", "request", "resolved", Null, <<>>, <<>>,
                             Mem, res.settled)
             /\ UNCHANGED <<state, universal, error, journey>>
     ELSE LET c == callOnError(Mem, TransportError, "request")
              res == requestCatch(tasks[i], c)
          IN /\ Commit(c.mem)
             /\ tasks' = Reacted(i, res)
             /\ last' = Last("settle", "request", "failed", TransportError, <<>>,
                             c.calls, c.mem, res.settled)
  /\ transport' = LET k == Cardinality({j \in 1..i : tasks[j].op = "request"})
                  IN SubSeq(transport, 1, k - 1) \o SubSeq(transport, k + 1, Len(transport))
  /\ UNCHANGED <<opts, browser, phase, watching, strategies, errorListeners, route>>

----------------------------------------------------------------------------
\* Specifications.  Each starts from the freshly constructed object and
\* runs the calls of one part of the class; the rest of the configuration
\* is fixed.

Syncs == {"returns", "throws"}

DefaultOptions ==
  [redirectOn |-> TRUE, redirect |-> RedirectMap, rewriteRedirects |-> TRUE,
   fullPathRedirect |-> FALSE, defaultStrategy |-> "local",
   token_prefix |-> "_token."]

DefaultRoute == [fullPath |-> "/secret", authOff |-> FALSE]

Settle ==
  \/ \E i \in 1..MaxTasks, ok \in BOOLEAN : SettleLifecycle(i, ok)
  \/ \E i \in 1..MaxTasks, ok \in BOOLEAN : SettleLogin(i, ok)
  \/ \E i \in 1..MaxTasks : LoginCatch(i)

\* The session controller and its strategies: any registry, switching
\* strategies, the lifecycle calls and login, in a browser.
Init ==
  /\ Constructed
  /\ opts = DefaultOptions
  /\ browser = TRUE
  /\ route = DefaultRoute
  /\ universal \in [Keys -> {Null}]

Next ==
  \/ \E n \in Names, c \in CapabilitySets : RegisterStrategy(n, c)
  \/ \E s \in Syncs : InitCall(s)
  \/ \E n \in Names, s \in Syncs : SetStrategy(n, s)
  \/ \E s \in Syncs : MountedCall(s)
  \/ \E n \in Names, s \in Syncs : LoginWith(n, s)
  \/ \E s \in Syncs : LoginCall(s)
  \/ \E s \in Syncs : FetchUserCall(s)
  \/ \E s \in Syncs : LogoutCall(s)
  \/ \E s \in Syncs : ResetCall(s)
  \/ \E u \in {"alice", Null} : SetUserCall(u)
  \/ \E i \in 1..MaxTasks, s \in Syncs : LoginWithThen(i, s)
  \/ Settle

Spec == Init /\ [][Next]_vars

\* Switching strategies: any registry, setStrategy and the mount step.
SwitchNext ==
  \/ \E n \in Names, c \in CapabilitySets : RegisterStrategy(n, c)
  \/ \E s \in Syncs : InitCall(s)
  \/ \E n \in Names, s \in Syncs : SetStrategy(n, s)
  \/ \E u \in {"alice", Null} : SetUserCall(u)
  \/ \E i \in 1..MaxTasks, ok \in BOOLEAN : SettleLifecycle(i, ok)

SwitchSpec == Init /\ [][SwitchNext]_vars

\* Errors: one strategy with every capability, any listeners, the
\* lifecycle calls and login.
ErrorNext ==
  \/ RegisterStrategy("local", Capabilities)
  \/ \E s \in Syncs : InitCall(s)
  \/ \E s \in Syncs : MountedCall(s)
  \/ \E s \in Syncs : LoginCall(s)
  \/ \E s \in Syncs : FetchUserCall(s)
  \/ \E s \in Syncs : LogoutCall(s)
  \/ \E s \in Syncs : ResetCall(s)
  \/ \E l \in Listeners : OnError(l)
  \/ Settle

ErrorSpec == Init /\ [][ErrorNext]_vars

\* The session state and its watcher: any configuration, in and outside a
\* browser, any route.
WatchInit ==
  /\ Constructed
  /\ opts \in Options
  /\ browser \in BOOLEAN
  /\ route \in Routes
  /\ universal \in [Keys -> {Null}]

WatchNext ==
  \/ RegisterStrategy("local", {})
  \/ InitCall("returns")
  \/ \E u \in Users \cup {Null} : SetUserCall(u)
  \/ \E r \in Routes : RouteChange(r)
  \/ \E s \in Syncs : ResetCall(s)

WatchSpec == WatchInit /\ [][WatchNext]_vars

\* The redirect policy: any configuration, any route (redirect() does not
\* read the route's auth option).
RedirectInit ==
  /\ WatchInit
  /\ ~routeOption(route)

RedirectNext ==
  \/ RegisterStrategy("local", {})
  \/ InitCall("returns")
  \/ \E e \in EventNames, b \in BOOLEAN : RedirectCall(e, b)
  \/ \E r \in Routes : ~routeOption(r) /\ RouteChange(r)

RedirectSpec == RedirectInit /\ [][RedirectNext]_vars

\* The request facade: tokens, endpoints, the transport's outcome.
RequestNext ==
  \/ RegisterStrategy("local", {})
  \/ InitCall("returns")
  \/ \E t \in TokenValues : SetTokenCall("local", t)
  \/ \E t \in {Null, "Bearer t1"} : SetTokenCall("social", t)
  \/ OnError("log")
  \/ \E e \in Endpoints, d \in DefaultsArgs : Request(e, d)
  \/ \E n \in Names, e \in Endpoints, d \in DefaultsArgs : RequestWith(n, e, d)
  \/ \E i \in 1..MaxTasks, ok \in BOOLEAN : SettleRequest(i, ok)

RequestSpec == Init /\ [][RequestNext]_vars

\* requestWith among plain requests: the token of "local" set and cleared,
\* "social" never given one.
TokenNext ==
  \/ RegisterStrategy("local", {})
  \/ InitCall("returns")
  \/ \E t \in TokenValues : SetTokenCall("local", t)
  \/ \E s \in Names, e \in Endpoints, d \in DefaultsArgs :
       e.propertyName = Null /\ RequestWith(s, e, d)
  \/ \E e \in Endpoints : e.propertyName = Null /\ Request(e, NoDefaults)
  \/ \E i \in 1..MaxTasks, ok \in BOOLEAN : SettleRequest(i, ok)

TokenSpec == Init /\ [][TokenNext]_vars

\* reset(): any registry, tokens of both strategies, a user, a listener.
ResetNext ==
  \/ \E n \in Names, c \in CapabilitySets : RegisterStrategy(n, c)
  \/ \E s \in Syncs : InitCall(s)
  \/ \E n \in Names : SetStrategy(n, "returns")
  \/ \E n \in Names, t \in {Null, "Bearer t1"} : SetTokenCall(n, t)
  \/ \E u \in {"alice", Null} : SetUserCall(u)
  \/ OnError("log")
  \/ \E s \in Syncs : ResetCall(s)
  \/ \E i \in 1..MaxTasks, ok \in BOOLEAN : SettleLifecycle(i, ok)

ResetSpec == Init /\ [][ResetNext]_vars

\* The redirect policy over what a previous session may have persisted:
\* any return-to value, a route whose path is not a same-origin relative
\* path among the routes.
ForeignPath == "//other.example/x"

ReturnToInit ==
  /\ Constructed
  /\ opts \in Options
  /\ browser = TRUE
  /\ route = DefaultRoute
  /\ universal \in [Keys -> URLs \cup {Null}]
  /\ \A k \in Keys \ {RedirectKey} : universal[k] = Null

ReturnToNext ==
  \/ RegisterStrategy("local", {})
  \/ InitCall("returns")
  \/ \E e \in EventNames, b \in BOOLEAN : RedirectCall(e, b)
  \/ \E p \in {"/login", "/secret", ForeignPath} :
       RouteChange([fullPath |-> p, authOff |-> FALSE])

ReturnToSpec == ReturnToInit /\ [][ReturnToNext]_vars

----------------------------------------------------------------------------
\* Properties.

Occurrences(seq, x) == Cardinality({i \in DOMAIN seq : seq[i] = x})

\* What callOnError is expected to do with a failure of method: every
\* registered listener called once, in order, with the failure and the tag.
Broadcast(err, method) ==
  [i \in 1..Len(errorListeners) |->
     [fn |-> errorListeners[i], error |-> err, method |-> method]]

\* C1: loggedIn is true exactly when user is not null, in the state every
\* operation leaves and in every state the watch callback observes while
\* the operation runs.
C1_LoggedInIffUser ==
  /\ state.loggedIn = (state.user # Null)
  /\ \A i \in 1..Len(last.fired) :
       last.fired[i].loggedIn = (last.fired[i].user # Null)

\* C2: after setUser(u) returns, the stored user is u and loggedIn is true
\* exactly when u is not null.
C2_SetUserResult ==
  last.op = "setUser" =>
    /\ state.user = last.arg
    /\ state.loggedIn = (last.arg # Null)

\* setUser(null) on a logged-in session, with the watcher run in between.
C2_Witness ==
  /\ last.op = "setUser"
  /\ last.arg = Null
  /\ Len(last.fired) = 1
  /\ ~state.loggedIn

\* C3: when the strategy's login fails with E, the future login() returned
\* is rejected with E (after the broadcast).
C3_LoginFailureReRaised ==
  \A k \in 1..Len(last.settled) :
    LET o == last.settled[k]
    IN (o.entry = "login" /\ o.failed) =>
         (o.outcome = "rejected" /\ o.err = StrategyError)

\* C4: for every failing login() call each registered listener is called
\* exactly once with the failure and {method: 'login'}, and busy is false
\* once the login has settled.
C4_LoginFailureBroadcast ==
  /\ \A k \in 1..Len(last.settled) :
       LET o == last.settled[k]
       IN (o.entry = "login" /\ o.failed) =>
            (last.calls = Broadcast(StrategyError, "login") /\ ~state.busy)
  /\ (last.op = "login" /\ last.kind = "threw" /\ last.err = StrategyError) =>
       last.calls = Broadcast(StrategyError, "login")

\* C5: setStrategy(name) with name the strategy already persisted returns
\* a resolved future, invokes no capability and changes nothing: the same
\* as not calling it.
C5_SameStrategyNoOp ==
  [][(last'.op = "setStrategy" /\ last'.arg = universal[StrategyKey]) =>
       /\ last'.kind = "resolved"
       /\ last'.invoked = <<>>
       /\ UNCHANGED <<opts, browser, phase, watching, strategies, state, universal,
                      errorListeners, error, route, tasks, transport, journey>>]_vars

\* setStrategy called with the strategy in use, while a lifecycle call of
\* it is outstanding.
C5_Witness ==
  /\ last.op = "setStrategy"
  /\ last.arg = last.prev
  /\ last.arg \in DOMAIN strategies
  /\ "mounted" \in strategies[last.arg]
  /\ state.user = Null
  /\ Len(tasks) = 1

\* setStrategy(B) was called with registered strategies A (in use) and B.
Switched ==
  /\ last.op = "setStrategy"
  /\ last.prev \in DOMAIN strategies
  /\ last.arg \in DOMAIN strategies
  /\ last.arg # last.prev

\* C6 as stated: setStrategy(B) persists B and invokes B's mounted exactly
\* once and A's mounted not at all.
C6_MountedOnceAsStated ==
  Switched =>
    /\ universal[StrategyKey] = last.arg
    /\ state.strategy = last.arg
    /\ Occurrences(last.invoked, <<last.arg, "mounted">>) = 1
    /\ Occurrences(last.invoked, <<last.prev, "mounted">>) = 0

\* C6: setStrategy(B) persists B; if B implements mounted it is invoked
\* exactly once and nothing else is; if not, no mounted capability is
\* invoked and fetchUserOnce() runs (B's fetchUser, when B has one and no
\* user is loaded); A's mounted is never invoked.
C6_MountedOnce ==
  Switched =>
    /\ universal[StrategyKey] = last.arg
    /\ state.strategy = last.arg
    /\ last.invoked =
         IF "mounted" \in strategies[last.arg]
         THEN << <<last.arg, "mounted">> >>
         ELSE IF "fetchUser" \in strategies[last.arg] /\ state.user = Null
         THEN << <<last.arg, "fetchUser">> >>
         ELSE <<>>

\* A switch from a strategy with mounted to one without it.
C6_Witness ==
  /\ Switched
  /\ "mounted" \in strategies[last.prev]
  /\ "mounted" \notin strategies[last.arg]
  /\ last.invoked = << <<last.arg, "fetchUser">> >>

\* The Authorization header the caller gave requestWith: the endpoint's
\* headers, or the defaults' when the endpoint has none.
CallerHeader(endpoint, defaults) ==
  IF endpoint.auth # NoHeaders THEN endpoint.auth
  ELSE IF defaults.given THEN defaults.auth ELSE NoHeaders

\* C7: requestWith(strategy, ...) with no token stored (unset or empty) is
\* rejected with No Token and hands nothing to the transport; with a token
\* stored it hands exactly one request to the transport, whose
\* Authorization header is the stored token unchanged, or the caller's
\* header when the caller gave a non-empty one.
C7_RequestWithToken ==
  [][last'.op = "requestWith" =>
       LET token == universal[TokenKey(last'.arg)]
           given == CallerHeader(last'.input[1], last'.input[2])
       IN IF token \in {Null, ""}
          THEN /\ last'.kind = "rejected"
               /\ last'.err = NoToken
               /\ UNCHANGED <<transport, tasks>>
          ELSE /\ last'.kind = "pending"
               /\ Len(transport') = Len(transport) + 1
               /\ SubSeq(transport', 1, Len(transport)) = transport
               /\ transport'[Len(transport')] =
                    IF given \in {NoHeaders, Null, ""} THEN token ELSE given]_vars

\* requestWith with a stored token and no header from the caller.
C7_Witness ==
  /\ last.op = "requestWith"
  /\ last.kind = "pending"
  /\ CallerHeader(last.input[1], last.input[2]) = NoHeaders
  /\ transport[Len(transport)] = "Bearer t1"

\* The destination of a redirect call once the rewrite is applied, from
\* the return-to value stored when it was called.
Resolved(rr) ==
  IF opts.rewriteRedirects /\ rr.name = "home" /\ isRelativeURL(rr.stored)
  THEN rr.stored
  ELSE opts.redirect[rr.name]

\* C8: a redirect call whose destination, after the rewrite, is the same
\* URL as the route it was issued from does not navigate; no call
\* navigates from a route to itself.
C8_NoSelfRedirect ==
  \A i \in 1..Len(last.redirs) :
    LET rr == last.redirs[i]
    IN /\ (opts.redirectOn /\ opts.redirect[rr.name] # Null
            /\ isSameURL(Resolved(rr), rr.from)) => ~rr.navigated
       /\ rr.navigated => ~isSameURL(rr.to, rr.from)

\* redirect('home') issued from the stored return-to path, the configured
\* home being another path: the rewritten destination is checked.
C8_Witness ==
  \E i \in 1..Len(last.redirs) :
    LET rr == last.redirs[i]
    IN /\ opts.redirectOn
       /\ opts.rewriteRedirects
       /\ rr.name = "home"
       /\ opts.redirect["home"] # Null
       /\ isRelativeURL(rr.stored)
       /\ isSameURL(rr.stored, rr.from)
       /\ ~isSameURL(opts.redirect["home"], rr.from)
       /\ ~rr.navigated

\* redirect('login') was issued from a relative path p other than the
\* login destination and redirect('home') followed, rewrites enabled and a
\* home destination configured.
ReturnJourney ==
  /\ Len(journey) >= 2
  /\ journey[1].name = "login"
  /\ opts.redirectOn
  /\ opts.rewriteRedirects
  /\ opts.redirect["login"] # Null
  /\ opts.redirect["home"] # Null
  /\ isRelativeURL(journey[1].from)
  /\ ~isSameURL(opts.redirect["login"], journey[1].from)

\* C9 as stated: the redirect('home') after redirect('login') from p
\* navigates to p and clears the stored value; the next redirect('home')
\* uses the configured home.
C9_ReturnToAsStated ==
  ReturnJourney =>
    /\ journey[2].navigated
    /\ journey[2].to = journey[1].from
    /\ Len(journey) = 2 => universal[RedirectKey] = Null
    /\ \A k \in 3..Len(journey) :
         journey[k].stored = Null /\ journey[k].to = opts.redirect["home"]

\* C9: the redirect('home') after redirect('login') from p resolves its
\* destination to p and navigates to it unless the route it is issued from
\* is the same URL as p; either way it clears the stored value, and every
\* later redirect('home') resolves to the configured home.
C9_ReturnTo ==
  ReturnJourney =>
    /\ journey[2].to = journey[1].from
    /\ journey[2].navigated = ~isSameURL(journey[1].from, journey[2].from)
    /\ Len(journey) = 2 => universal[RedirectKey] = Null
    /\ \A k \in 3..Len(journey) :
         /\ journey[k].stored = Null
         /\ journey[k].to = opts.redirect["home"]
         /\ journey[k].navigated = ~isSameURL(opts.redirect["home"], journey[k].from)

\* login from p, home issued while the route is p again (no navigation),
\* then home from another route: the configured home.
C9_Witness ==
  /\ ReturnJourney
  /\ Len(journey) >= 3
  /\ ~journey[2].navigated
  /\ journey[3].navigated
  /\ journey[3].to # journey[2].to

\* C10: when the strategy's m fails (m one of mounted, fetchUser, logout,
\* reset, called on a strategy implementing it), the failure is broadcast
\* tagged {method: m} and the future of the controller's m resolves.
C10_LifecycleFailureSwallowed ==
  /\ \A k \in 1..Len(last.settled) :
       LET o == last.settled[k]
       IN (o.entry \in Lifecycle /\ o.op = o.entry /\ o.failed) =>
            (o.outcome = "resolved" /\ last.calls = Broadcast(StrategyError, o.op))
  /\ (last.op \in Lifecycle /\ last.err = StrategyError) =>
       (last.kind # "threw" /\ last.calls = Broadcast(StrategyError, last.op))

\* C11: every error of a lifecycle call, a login call, a request or a
\* requestWith call is passed to every listener exactly once, tagged with
\* the method it came from, before it reaches the caller or is swallowed.
C11_EveryErrorBroadcastOnce ==
  /\ (last.op = "requestWith" /\ last.kind = "rejected") =>
       last.calls = Broadcast(last.err, "requestWith")
  /\ (last.kind = "threw" /\ last.err = StrategyError) =>
       last.calls = Broadcast(StrategyError, last.op)
  /\ \A k \in 1..Len(last.settled) :
       LET o == last.settled[k]
       IN o.failed =>
            last.calls = Broadcast(IF o.op = "request" THEN TransportError
                                   ELSE StrategyError, o.op)

\* C12: once init() has run (the default strategy being registered), after
\* any setStrategy and loginWith calls the session's strategy field names a
\* registered strategy.
C12_StrategyRegistered ==
  (phase = "ready" /\ opts.defaultStrategy \in DOMAIN strategies) =>
    state.strategy \in DOMAIN strategies

\* C13: with no strategy registered under the active name, mounted, login,
\* fetchUser, logout and reset act as no-ops and raise nothing.
C13_NoStrategyNoOp ==
  (last.op \in Capabilities /\ last.prev \notin DOMAIN strategies) =>
    (last.kind = "resolved" /\ last.err = Null)

\* C14: when the strategy's login is called by login(), busy is already
\* true and the last error already cleared; busy is false once that call
\* has settled, also when it failed synchronously.
C14_BusyAroundLogin ==
  /\ \A i \in 1..Len(last.started) :
       last.started[i].capability = "login" =>
         (last.started[i].busy /\ last.started[i].error = Null)
  /\ (last.op = "settle" /\ last.arg = "login") => ~state.busy
  /\ (last.op = "login" /\ last.kind = "threw" /\ last.err = StrategyError) =>
       ~state.busy

\* The login capabilities invoked for a loginWith(name) call are those of
\* strategy name.
LoginOfNamed(t) ==
  t.entry = "loginWith" =>
    \A i \in 1..Len(t.invoked) :
      t.invoked[i][2] = "login" => t.invoked[i][1] = t.arg

\* C15: the login that loginWith(name) invokes is the login of strategy
\* name, whatever other setStrategy or loginWith calls are interleaved.
C15_LoginWithNamedStrategy ==
  /\ \A i \in 1..Len(tasks) : LoginOfNamed(tasks[i])
  /\ \A k \in 1..Len(last.settled) : LoginOfNamed(last.settled[k])

\* C16: when logout() falls back to reset() and its future resolves, the
\* reset has completed: no reset started by logout() is still outstanding.
C16_LogoutAwaitsReset ==
  (last.op = "logout" /\ last.kind = "resolved") =>
    \A i \in 1..Len(tasks) :
      ~(tasks[i].entry = "logout/reset" /\ tasks[i].pc = "pending")

\* C17: reset() on a registered strategy without a reset capability leaves
\* user null, loggedIn false and the current strategy's token cleared, and
\* leaves the strategy name, every other strategy's token, the registry
\* and the listeners as they were.
C17_ResetFallback ==
  [][(/\ last'.op = "reset"
      /\ state.strategy \in DOMAIN strategies
      /\ "reset" \notin strategies[state.strategy]) =>
       /\ last'.kind = "resolved"
       /\ state'.user = Null
       /\ ~state'.loggedIn
       /\ universal'[TokenKey(state.strategy)] = Null
       /\ state'.strategy = state.strategy
       /\ universal'[StrategyKey] = universal[StrategyKey]
       /\ \A n \in Names \ {state.strategy} :
            universal'[TokenKey(n)] = universal[TokenKey(n)]
       /\ UNCHANGED <<strategies, errorListeners>>]_vars

\* The fallback ran on a logged-in session (the watcher fired) while the
\* other strategy holds a token and a listener is registered.
C17_Witness ==
  /\ last.op = "reset"
  /\ last.kind = "resolved"
  /\ last.invoked = <<>>
  /\ Len(last.fired) = 1
  /\ errorListeners # <<>>
  /\ \E n \in Names \ {state.strategy} : universal[TokenKey(n)] = "Bearer t1"
  /\ universal[TokenKey(state.strategy)] = Null

\* The names of the redirect calls made in a segment.
RedirectNames(l) == [i \in 1..Len(l.redirs) |-> l.redirs[i].name]

\* C18: once init() has run in a browser, a step that turns loggedIn true
\* on a route that does not opt out of auth makes exactly one
\* redirect('home') call, a step that turns it false exactly one
\* redirect('logout') call; no other step makes a redirect call (route
\* opting out, loggedIn written with the value it has, no browser).
C18_RedirectOnTransition ==
  [][RedirectNames(last') =
       IF /\ phase = "ready"
          /\ browser
          /\ state'.loggedIn # state.loggedIn
          /\ ~routeOption(route)
       THEN << IF state'.loggedIn THEN "home" ELSE "logout" >>
       ELSE <<>>]_vars

\* setUser(u) logged the session in and the watcher called redirect('home').
C18_Witness ==
  /\ last.op = "setUser"
  /\ state.loggedIn
  /\ browser
  /\ ~routeOption(route)
  /\ RedirectNames(last) = <<"home">>

\* C19: a redirect call that navigates goes to the destination configured
\* for its event or, for 'home' with rewrites enabled, to the stored
\* return-to value when that is a relative path; redirect('home') never
\* navigates to a stored value that is not a relative path and clears it
\* all the same; redirect('login') stores nothing but the route it is
\* issued from, and only when that is a relative path other than the login
\* destination.
C19_SafeDestinations ==
  [][last'.op = "redirect" =>
       LET rr == last'.redirs[1]
           stored == universal[RedirectKey]
           kept == universal'[RedirectKey]
           homeRewrite == /\ rr.name = "home"
                          /\ opts.redirectOn
                          /\ opts.redirect["home"] # Null
                          /\ opts.rewriteRedirects
       IN /\ rr.navigated =>
               \/ rr.to = opts.redirect[rr.name]
               \/ homeRewrite /\ isRelativeURL(stored) /\ rr.to = stored
          /\ (homeRewrite /\ ~isRelativeURL(stored)) =>
               /\ kept = Null
               /\ rr.navigated => rr.to = opts.redirect["home"]
          /\ kept # stored =>
               \/ homeRewrite /\ kept = Null
               \/ /\ rr.name = "login"
                  /\ kept = rr.from
                  /\ isRelativeURL(kept)
                  /\ ~isSameURL(kept, opts.redirect["login"])
          /\ (rr.name = "login" /\ (~isRelativeURL(rr.from)
                \/ isSameURL(rr.from, opts.redirect["login"]))) => kept = stored]_vars

\* redirect('home') found a stored absolute URL: it went to the configured
\* home and cleared the value.
C19_Witness ==
  /\ last.op = "redirect"
  /\ last.redirs[1].name = "home"
  /\ last.redirs[1].stored = "https://idp.example/cb"
  /\ last.redirs[1].navigated
  /\ last.redirs[1].to = opts.redirect["home"]
  /\ universal[RedirectKey] = Null

\* C20: busy is true exactly when the strategy's future of some login
\* started by login() has not settled yet, also with overlapping logins.
C20_BusyIffLoginOutstanding ==
  state.busy = (\E i \in 1..Len(tasks) :
                  tasks[i].op = "login" /\ tasks[i].pc = "pending")

====
